---- MODULE Spec2Model ----
(***************************************************************************)
(* The sweep scripts of the 175 project (scripts/baseline.sh and the four  *)
(* pruning sweeps) executed by bash, and the "Check Sparsity" cell of      *)
(* project.ipynb.                                                          *)
(*                                                                         *)
(* A script is a list of simple commands.  bash runs them in order, waits  *)
(* for each foreground command, stores its exit status in $? and, with no  *)
(* `set -e`, goes on whatever that status is.  The external trainer is the *)
(* only command whose exit status is not fixed by the script.              *)
(*                                                                         *)
(* Strings are atomic here, so a text is the sequence of its words:        *)
(* "Starting R 0.05" is <<"Starting", "R", "0.05">>, and a command line is *)
(* the sequence of its arguments after expansion.                          *)
(***************************************************************************)
EXTENDS Naturals, Sequences, FiniteSets

VARIABLES sh, nb

vars == <<sh, nb>>

(***************************************************************************)
(* Bounds.                                                                 *)
(***************************************************************************)
\* exit statuses of the external trainer: 0 is success, 1..MaxExitCode failures
MaxExitCode == 1
\* layers of the network the notebook cell inspects
MaxLayers == 2
\* entries of one layer's weight tensor
MaxWeights == 2

ExitCodes == 0..MaxExitCode

(***************************************************************************)
(* The scripts.                                                            *)
(***************************************************************************)
BaselineScript == "scripts/baseline.sh"
PpoL1Script == "unnamed/part_000"
DqnRandomScript == "unnamed/part_001"
PpoSanityScript == "unnamed/part_002"
PpoRandomScript == "src/scripts/ppo/random_test.sh"

Scripts ==
  {BaselineScript, PpoL1Script, DqnRandomScript, PpoSanityScript, PpoRandomScript}

\* the statements of a script, one record shape for all of them
AssignS(l, v, x) ==
  [op |-> "assign", line |-> l, var |-> v, val |-> x, text |-> <<>>, args |-> <<>>]
FunDefS(l) ==
  [op |-> "fundef", line |-> l, var |-> "", val |-> "", text |-> <<>>, args |-> <<>>]
EchoS(l, t) ==
  [op |-> "echo", line |-> l, var |-> "", val |-> "", text |-> t, args |-> <<>>]
CallS(l, a) ==
  [op |-> "call", line |-> l, var |-> "", val |-> "", text |-> <<>>, args |-> a]

\* lines 4-5 of every script
Preamble ==
  << AssignS(4, "env", "SpaceInvadersNoFrameskip-v4"),
     AssignS(5, "path_to_poetry", "/home/omar/miniconda3/envs/175-env/bin/poetry"),
     FunDefS(8) >>

BaselineSh ==
  Preamble \o
  << EchoS(17, <<"Creating", "baseline", "model">>),
     EchoS(18, <<"run_python_command">>),
     CallS(19, <<>>),
     EchoS(20, <<"Finished", "creating", "baseline", "model">>) >>

PpoL1Sh ==
  Preamble \o
  << EchoS(20, <<"Starting", "Baseline">>),
     EchoS(21, <<"run_python_command">>),
     CallS(22, <<"Baseline", "0">>),
     EchoS(23, <<"Finished", "Baseline">>),
     EchoS(25, <<"Starting", "L1", "0.1">>),
     EchoS(26, <<"run_python_command">>),
     CallS(27, <<"L1_0.1", "0.1">>),
     EchoS(28, <<"Finished", "L1", "0.1">>),
     EchoS(30, <<"Starting", "L1", "0.3">>),
     EchoS(31, <<"run_python_command">>),
     CallS(32, <<"L1_0.3", "0.3">>),
     EchoS(33, <<"Finished", "L1", "0.3">>),
     EchoS(35, <<"Starting", "L1", "0.5">>),
     EchoS(36, <<"run_python_command">>),
     CallS(37, <<"L1_0.5", "0.5">>),
     EchoS(38, <<"Finished", "L1", "0.5">>) >>

\* the sweep with the finish marker of the first run left out
DqnRandomShNoFinish ==
  Preamble \o
  << EchoS(27, <<"Starting", "R", "0.05">>),
     EchoS(28, <<"run_python_command">>),
     CallS(29, <<"R_0.05", "0.05">>),
     EchoS(32, <<"Starting", "R", "0.1">>),
     EchoS(33, <<"run_python_command">>),
     CallS(34, <<"R_0.1", "0.1">>),
     EchoS(35, <<"Finished", "R", "0.1">>) >>

DqnRandomSh ==
  Preamble \o
  << EchoS(27, <<"Starting", "R", "0.05">>),
     EchoS(28, <<"run_python_command">>),
     CallS(29, <<"R_0.05", "0.05">>),
     EchoS(30, <<"Finished", "R", "0.01">>),
     EchoS(32, <<"Starting", "R", "0.1">>),
     EchoS(33, <<"run_python_command">>),
     CallS(34, <<"R_0.1", "0.1">>),
     EchoS(35, <<"Finished", "R", "0.1">>),
     EchoS(37, <<"Starting", "R", "0.3">>),
     EchoS(38, <<"run_python_command">>),
     CallS(39, <<"R_0.3", "0.3">>),
     EchoS(40, <<"Finished", "R", "0.3">>),
     EchoS(42, <<"Starting", "R", "0.5">>),
     EchoS(43, <<"run_python_command">>),
     CallS(44, <<"R_0.5", "0.5">>),
     EchoS(45, <<"Finished", "R", "0.5">>),
     EchoS(47, <<"Starting", "R", "0.8">>),
     EchoS(48, <<"run_python_command">>),
     CallS(49, <<"R_0.8", "0.8">>),
     EchoS(50, <<"Finished", "R", "0.8">>) >>

PpoSanitySh ==
  Preamble \o
  << EchoS(21, <<"Starting", "L1", "0.1">>),
     EchoS(22, <<"run_python_command">>),
     CallS(23, <<"ppo_sanity", "0.1">>),
     EchoS(24, <<"Finished", "L1", "0.1">>) >>

PpoRandomSh ==
  Preamble \o
  << EchoS(21, <<"Starting", "R", "0.1">>),
     EchoS(22, <<"run_python_command">>),
     CallS(23, <<"ppo_R_0.1", "0.1">>),
     EchoS(24, <<"Finished", "R", "0.1">>),
     EchoS(26, <<"Starting", "R", "0.3">>),
     EchoS(27, <<"run_python_command">>),
     CallS(28, <<"ppo_R_0.3", "0.3">>),
     EchoS(29, <<"Finished", "R", "0.3">>),
     EchoS(31, <<"Starting", "R", "0.5">>),
     EchoS(32, <<"run_python_command">>),
     CallS(33, <<"ppo_R_0.5", "0.5">>),
     EchoS(34, <<"Finished", "R", "0.5">>) >>

Prog(script) ==
  CASE script = BaselineScript -> BaselineSh
    [] script = PpoL1Script -> PpoL1Sh
    [] script = DqnRandomScript -> DqnRandomSh
    [] script = PpoSanityScript -> PpoSanitySh
    [] script = PpoRandomScript -> PpoRandomSh

(***************************************************************************)
(* Expansion of words.                                                     *)
(***************************************************************************)
\* an unquoted $x: the value as one word, and no word at all when it is empty
\* or unset (no value of these scripts holds a blank, so none splits in two)
Expand(v) == IF v = "" THEN <<>> ELSE <<v>>

\* the positional parameter $n of a call with the arguments a
Param(a, n) == IF n <= Len(a) THEN a[n] ELSE ""

\* run_python_command with $1 and $2 taken for each other
run_python_command_swapped(s, a) ==
  Expand(s.path_to_poetry) \o <<"run", "python", "cleanrl/dqn_atari.py", "--exp_name">>
    \o Expand(Param(a, 2)) \o <<"--env-id">> \o Expand(s.env)
    \o <<"--capture_video", "--buffer_size", "100000", "--save_model",
         "--total_timesteps", "2000000", "--track", "--prune",
         "--prune_method", "random", "--prune_amount">>
    \o Expand(Param(a, 1))

\* run_python_command with $2 also written after --total_timesteps
run_python_command_steps(s, a) ==
  Expand(s.path_to_poetry) \o <<"run", "python", "cleanrl/dqn_atari.py", "--exp_name">>
    \o Expand(Param(a, 1)) \o <<"--env-id">> \o Expand(s.env)
    \o <<"--capture_video", "--buffer_size", "100000", "--save_model",
         "--total_timesteps">> \o Expand(Param(a, 2))
    \o <<"--track", "--prune", "--prune_method", "random", "--prune_amount">>
    \o Expand(Param(a, 2))

\* the simple command that the body of run_python_command expands to, in the
\* shell s, called with the arguments a
run_python_command(s, a) ==
  CASE s.script = BaselineScript ->
         Expand(s.path_to_poetry) \o <<"run", "python", "cleanrl/dqn_atari.py", "--env-id">>
           \o Expand(s.env)
           \o <<"--capture_video", "--buffer_size", "100000", "--save_model", "--track">>
    [] s.script = PpoL1Script ->
         Expand(s.path_to_poetry) \o <<"run", "python", "cleanrl/ppo_atari.py", "--exp_name">>
           \o Expand(Param(a, 1)) \o <<"--env-id">> \o Expand(s.env)
           \o <<"--capture_video", "--save_model", "--total_timesteps", "2000000",
                "--track", "--prune", "--prune_amount">>
           \o Expand(Param(a, 2))
    [] s.script = DqnRandomScript ->
         Expand(s.path_to_poetry) \o <<"run", "python", "cleanrl/dqn_atari.py", "--exp_name">>
           \o Expand(Param(a, 1)) \o <<"--env-id">> \o Expand(s.env)
           \o <<"--capture_video", "--buffer_size", "100000", "--save_model",
                "--total_timesteps", "2000000", "--track", "--prune",
                "--prune_method", "random", "--prune_amount">>
           \o Expand(Param(a, 2))
    [] s.script = PpoSanityScript ->
         Expand(s.path_to_poetry) \o <<"run", "python", "cleanrl/ppo_atari.py", "--exp_name">>
           \o Expand(Param(a, 1)) \o <<"--env-id">> \o Expand(s.env)
           \o <<"--capture_video", "--total_timesteps", "10000", "--track", "--prune",
                "--prune_amount">>
           \o Expand(Param(a, 2))
           \o <<"--prune_method", "random", "--save_model">>
    [] s.script = PpoRandomScript ->
         Expand(s.path_to_poetry) \o <<"run", "python", "cleanrl/ppo_atari.py", "--exp_name">>
           \o Expand(Param(a, 1)) \o <<"--env-id">> \o Expand(s.env)
           \o <<"--capture_video", "--total_timesteps", "2000000", "--track", "--prune",
                "--prune_amount">>
           \o Expand(Param(a, 2))
           \o <<"--prune_method", "random", "--save_model">>

(***************************************************************************)
(* The shell running one script.                                           *)
(*   pc        the statement bash executes next                            *)
(*   env, path_to_poetry   the shell variables of lines 4-5 ("" is unset)  *)
(*   fn        whether run_python_command is defined                       *)
(*   status    $?, the exit status of the last command                     *)
(*   running   the external trainer processes that have not returned       *)
(*   fg        the process bash waits for (0: none)                        *)
(*   log       what an observer of the terminal and of the process table   *)
(*             sees, in order: the lines printed, the runs started, the    *)
(*             runs returned                                               *)
(***************************************************************************)
InitShell(script) ==
  [ script |-> script, pc |-> 1, env |-> "", path_to_poetry |-> "", fn |-> FALSE,
    status |-> 0, running |-> {}, fg |-> 0, spawned |-> 0, log |-> <<>>,
    exited |-> FALSE, exit_status |-> 0 ]

EchoEvent(t) ==
  [type |-> "echo", text |-> t, args |-> <<>>, cmd |-> <<>>, pid |-> 0, ok |-> TRUE]
StartEvent(p, a, c) ==
  [type |-> "start", text |-> <<>>, args |-> a, cmd |-> c, pid |-> p, ok |-> TRUE]
ReturnEvent(p, code) ==
  [type |-> "return", text |-> <<>>, args |-> <<>>, cmd |-> <<>>, pid |-> p,
   ok |-> (code = 0)]

\* bash is about to execute a statement of kind op in execution e
At(e, op) ==
  /\ ~sh[e].exited
  /\ sh[e].fg = 0
  /\ sh[e].pc <= Len(Prog(sh[e].script))
  /\ Prog(sh[e].script)[sh[e].pc].op = op

Stmt(e) == Prog(sh[e].script)[sh[e].pc]

\* env="..." and path_to_poetry="..."
Assign(e) ==
  /\ At(e, "assign")
  /\ sh' = [sh EXCEPT ![e] =
              [@ EXCEPT !.env = IF Stmt(e).var = "env" THEN Stmt(e).val ELSE @,
                        !.path_to_poetry =
                          IF Stmt(e).var = "path_to_poetry" THEN Stmt(e).val ELSE @,
                        !.status = 0,
                        !.pc = @ + 1]]
  /\ UNCHANGED nb

\* run_python_command () { ... }
FunDef(e) ==
  /\ At(e, "fundef")
  /\ sh' = [sh EXCEPT ![e] = [@ EXCEPT !.fn = TRUE, !.status = 0, !.pc = @ + 1]]
  /\ UNCHANGED nb

\* echo without resetting $?
EchoKeepStatus(e) ==
  /\ At(e, "echo")
  /\ sh' = [sh EXCEPT ![e] =
              [@ EXCEPT !.log = Append(@, EchoEvent(Stmt(e).text)),
                        !.pc = @ + 1]]
  /\ UNCHANGED nb

\* echo "...": prints its words and succeeds
Echo(e) ==
  /\ At(e, "echo")
  /\ sh' = [sh EXCEPT ![e] =
              [@ EXCEPT !.log = Append(@, EchoEvent(Stmt(e).text)),
                        !.status = 0,
                        !.pc = @ + 1]]
  /\ UNCHANGED nb

\* run_python_command ... &: the trainer is started and not waited for
InvokeBackground(e) ==
  /\ At(e, "call")
  /\ sh' = [sh EXCEPT ![e] =
              [@ EXCEPT !.spawned = @ + 1,
                        !.running = @ \cup {sh[e].spawned + 1},
                        !.log = Append(@, StartEvent(sh[e].spawned + 1, Stmt(e).args,
                                                    run_python_command(sh[e], Stmt(e).args))),
                        !.status = 0,
                        !.pc = @ + 1]]
  /\ UNCHANGED nb

\* run_python_command "name" amount: the function body starts the trainer in
\* the foreground and bash waits for it; an undefined function is "command
\* not found", status 127
Invoke(e) ==
  /\ At(e, "call")
  /\ IF sh[e].fn
       THEN sh' = [sh EXCEPT ![e] =
                     [@ EXCEPT !.spawned = @ + 1,
                               !.running = @ \cup {sh[e].spawned + 1},
                               !.fg = sh[e].spawned + 1,
                               !.log = Append(@, StartEvent(sh[e].spawned + 1, Stmt(e).args,
                                                   run_python_command(sh[e], Stmt(e).args)))]]
       ELSE sh' = [sh EXCEPT ![e] = [@ EXCEPT !.status = 127, !.pc = @ + 1]]
  /\ UNCHANGED nb

\* a failed run is started again
ReturnRetry(e, code) ==
  /\ ~sh[e].exited
  /\ \E p \in sh[e].running :
       sh' = [sh EXCEPT ![e] =
                [@ EXCEPT !.running = @ \ {p},
                          !.log = Append(@, ReturnEvent(p, code)),
                          !.status = IF sh[e].fg = p THEN code ELSE @,
                          !.fg = IF sh[e].fg = p THEN 0 ELSE @,
                          !.pc = IF sh[e].fg = p /\ code = 0 THEN @ + 1 ELSE @]]
  /\ UNCHANGED nb

\* set -e: a failed run ends the script with the run's status
ReturnErrexit(e, code) ==
  /\ ~sh[e].exited
  /\ \E p \in sh[e].running :
       sh' = [sh EXCEPT ![e] =
                [@ EXCEPT !.running = @ \ {p},
                          !.log = Append(@, ReturnEvent(p, code)),
                          !.status = IF sh[e].fg = p THEN code ELSE @,
                          !.fg = IF sh[e].fg = p THEN 0 ELSE @,
                          !.pc = IF sh[e].fg = p /\ code = 0 THEN @ + 1 ELSE @,
                          !.exited = (sh[e].fg = p /\ code # 0),
                          !.exit_status = IF sh[e].fg = p /\ code # 0 THEN code ELSE @]]
  /\ UNCHANGED nb

\* the trainer returns with the exit status code; it becomes $? and bash goes
\* on to the next statement, whatever the status (the scripts set no -e and
\* test no status)
Return(e, code) ==
  /\ ~sh[e].exited
  /\ \E p \in sh[e].running :
       sh' = [sh EXCEPT ![e] =
                [@ EXCEPT !.running = @ \ {p},
                          !.log = Append(@, ReturnEvent(p, code)),
                          !.status = IF sh[e].fg = p THEN code ELSE @,
                          !.fg = IF sh[e].fg = p THEN 0 ELSE @,
                          !.pc = IF sh[e].fg = p THEN @ + 1 ELSE @]]
  /\ UNCHANGED nb

\* end of file: the script's exit status is that of its last command
Exit(e) ==
  /\ ~sh[e].exited
  /\ sh[e].fg = 0
  /\ sh[e].pc = Len(Prog(sh[e].script)) + 1
  /\ sh' = [sh EXCEPT ![e] = [@ EXCEPT !.exited = TRUE, !.exit_status = sh[e].status]]
  /\ UNCHANGED nb

(***************************************************************************)
(* The "Check Sparsity" cell of project.ipynb.  A layer is its kind and    *)
(* the entries of its weight tensor, flattened; ReLU and Flatten have no   *)
(* weight.                                                                 *)
(***************************************************************************)
Entries == {0, 1}

WeightsUpTo(n) == UNION {[1..k -> Entries] : k \in 1..n}

Layers ==
  [kind : {"Linear", "Conv2d"}, weight : WeightsUpTo(MaxWeights)]
    \cup [kind : {"ReLU", "Flatten"}, weight : {<<>>}]

Networks == UNION {[1..k -> Layers] : k \in 1..MaxLayers}

NbOff ==
  [stage |-> "off", network |-> <<>>, weights |-> <<>>, zero_weights |-> 0,
   nonzero_weights |-> 0, sparsity |-> [num |-> 0, den |-> 1]]

RECURSIVE SumSeq(_)
\* Python's sum() of a list of numbers
SumSeq(s) == IF s = <<>> THEN 0 ELSE s[1] + SumSeq(Tail(s))

\* torch.sum(torch.eq(weight, 0)).item()
CountEqZero(w) == Cardinality({i \in DOMAIN w : w[i] = 0})

\* torch.count_nonzero(weight).item()
CountNonzero(w) == Cardinality({i \in DOMAIN w : w[i] # 0})

\* weights = [layer.weight if isinstance(layer, nn.Linear) else torch.tensor([0]) ...]
CollectWeights ==
  /\ nb.stage = "loaded"
  /\ nb' = [nb EXCEPT !.weights =
                        [i \in DOMAIN nb.network |->
                           IF nb.network[i].kind = "Linear"
                             THEN nb.network[i].weight
                             ELSE <<0>>],
                      !.stage = "weights"]
  /\ UNCHANGED sh

\* zero_weights = sum([... for weight in weights])
CountZeroWeights ==
  /\ nb.stage = "weights"
  /\ nb' = [nb EXCEPT !.zero_weights =
                        SumSeq([i \in DOMAIN nb.weights |-> CountEqZero(nb.weights[i])]),
                      !.stage = "zero"]
  /\ UNCHANGED sh

\* nonzero_weights = sum([... for weight in weights])
CountNonzeroWeights ==
  /\ nb.stage = "zero"
  /\ nb' = [nb EXCEPT !.nonzero_weights =
                        SumSeq([i \in DOMAIN nb.weights |-> CountNonzero(nb.weights[i])]),
                      !.stage = "nonzero"]
  /\ UNCHANGED sh

\* the three print calls; the quotient is kept as numerator and denominator
PrintSparsity ==
  /\ nb.stage = "nonzero"
  /\ nb.zero_weights + nb.nonzero_weights # 0
  /\ nb' = [nb EXCEPT !.sparsity =
                        [num |-> nb.zero_weights,
                         den |-> nb.zero_weights + nb.nonzero_weights],
                      !.stage = "printed"]
  /\ UNCHANGED sh

(***************************************************************************)
(* Specifications.                                                         *)
(***************************************************************************)
\* one execution of one of the scripts
Init ==
  /\ \E script \in Scripts : sh = <<InitShell(script)>>
  /\ nb = NbOff

\* two executions of the same script, whose runs end independently
InitPair ==
  /\ \E script \in Scripts : sh = <<InitShell(script), InitShell(script)>>
  /\ nb = NbOff

\* the notebook cell on a loaded network; a QNetwork has Linear layers
InitNb ==
  /\ sh = <<>>
  /\ \E n \in Networks :
       /\ \E i \in DOMAIN n : n[i].kind = "Linear"
       /\ nb = [NbOff EXCEPT !.stage = "loaded", !.network = n]

Next ==
  \/ \E e \in DOMAIN sh : Assign(e)
  \/ \E e \in DOMAIN sh : FunDef(e)
  \/ \E e \in DOMAIN sh : Echo(e)
  \/ \E e \in DOMAIN sh : Invoke(e)
  \/ \E e \in DOMAIN sh : \E code \in ExitCodes : Return(e, code)
  \/ \E e \in DOMAIN sh : Exit(e)

NextNb ==
  \/ CollectWeights
  \/ CountZeroWeights
  \/ CountNonzeroWeights
  \/ PrintSparsity

Spec == Init /\ [][Next]_vars

SpecPair == InitPair /\ [][Next]_vars

SpecNb == InitNb /\ [][NextNb]_vars

(***************************************************************************)
(* What the properties speak of.                                           *)
(***************************************************************************)
IsPrefix(a, b) == Len(a) <= Len(b) /\ \A i \in 1..Len(a) : a[i] = b[i]

RECURSIVE CallArgs(_)
\* the arguments of the calls of a program, in the order of the text
CallArgs(prog) ==
  IF prog = <<>> THEN <<>>
  ELSE (IF Head(prog).op = "call" THEN <<Head(prog).args>> ELSE <<>>)
         \o CallArgs(Tail(prog))

\* the fixed list of sweep points of a script
SweepPoints(script) == CallArgs(Prog(script))

IsStartEvent(ev) == ev.type = "start"
IsReturnEvent(ev) == ev.type = "return"

\* the runs started so far, and the runs returned so far, in order
Starts(s) == SelectSeq(s.log, IsStartEvent)
Returns(s) == SelectSeq(s.log, IsReturnEvent)

InvokedArgs(s) == [i \in 1..Len(Starts(s)) |-> Starts(s)[i].args]

SomeRunFailed(s) == \E k \in 1..Len(s.log) : s.log[k].type = "return" /\ ~s.log[k].ok
SomeRunSucceeded(s) == \E k \in 1..Len(s.log) : s.log[k].type = "return" /\ s.log[k].ok

\* a printed line that opens, or closes, the bracket of a run
IsStartMarker(t) == t # <<>> /\ t[1] \in {"Starting", "Creating"}
IsFinishMarker(t) == t # <<>> /\ t[1] = "Finished"

\* the log with every line that is no marker dropped: S a start marker, I a
\* run started, R a run returned, F a finish marker
Sym(ev) ==
  CASE ev.type = "start" -> "I"
    [] ev.type = "return" -> "R"
    [] ev.type = "echo" /\ IsStartMarker(ev.text) -> "S"
    [] ev.type = "echo" /\ IsFinishMarker(ev.text) -> "F"
    [] OTHER -> "-"

IsBracketEvent(ev) == Sym(ev) # "-"
Brackets(s) == SelectSeq(s.log, IsBracketEvent)

IsMarkerEvent(ev) == Sym(ev) \in {"S", "F"}
Markers(s) == SelectSeq(s.log, IsMarkerEvent)

\* the value that follows the first occurrence of a flag on a command line
FlagValue(cmd, flag) ==
  LET at == {i \in 1..(Len(cmd) - 1) : cmd[i] = flag}
  IN IF at = {} THEN ""
     ELSE cmd[(CHOOSE i \in at : \A j \in at : i <= j) + 1]

(***************************************************************************)
(* C1: in every script at most one external training run is active at any  *)
(* time, and the run of sweep point i+1 is started only after the run of   *)
(* sweep point i has returned, successfully or not.                        *)
(***************************************************************************)
C1_OneRunAtATime ==
  \A e \in DOMAIN sh :
    /\ Cardinality(sh[e].running) <= 1
    /\ \A k \in 1..Len(sh[e].log) :
         sh[e].log[k].type = "start" =>
           \A p \in 1..(sh[e].log[k].pid - 1) :
             \E j \in 1..(k - 1) :
               sh[e].log[j].type = "return" /\ sh[e].log[j].pid = p

\* a second run is active after a first one that failed
C1_Witness ==
  \E e \in DOMAIN sh :
    /\ sh[e].running = {2}
    /\ SomeRunFailed(sh[e])

(***************************************************************************)
(* C2: the trainer is invoked exactly once per (experiment_name,           *)
(* pruning_amount) pair of the script's list, in the listed order: at any  *)
(* time the pairs invoked so far are an initial part of the list, and when *)
(* the script has ended they are the whole list, whatever the outcomes.    *)
(***************************************************************************)
C2_OncePerPairInOrder ==
  \A e \in DOMAIN sh :
    /\ IsPrefix(InvokedArgs(sh[e]), SweepPoints(sh[e].script))
    /\ sh[e].exited => InvokedArgs(sh[e]) = SweepPoints(sh[e].script)

\* the five-point sweep has ended with runs that failed and runs that did not
C2_Witness ==
  \E e \in DOMAIN sh :
    /\ sh[e].exited
    /\ sh[e].script = DqnRandomScript
    /\ SomeRunFailed(sh[e])
    /\ SomeRunSucceeded(sh[e])

(***************************************************************************)
(* C3: a failing run does not stop the sweep.  Right after a run returns   *)
(* with a failure status the script is about to print a finish marker, and *)
(* a script in which a run failed ends only after its last statement, with *)
(* every marker printed and every sweep point invoked.                     *)
(***************************************************************************)
RECURSIVE ExpectedShape(_)
\* what a complete execution of a program shows, in order
ExpectedShape(prog) ==
  IF prog = <<>> THEN <<>>
  ELSE (CASE Head(prog).op = "echo" -> <<[type |-> "echo", text |-> Head(prog).text]>>
          [] Head(prog).op = "call" ->
               << [type |-> "start", text |-> <<>>], [type |-> "return", text |-> <<>>] >>
          [] OTHER -> <<>>)
         \o ExpectedShape(Tail(prog))

LogShape(s) == [k \in 1..Len(s.log) |-> [type |-> s.log[k].type, text |-> s.log[k].text]]

C3_FailureDoesNotStopSweep ==
  \A e \in DOMAIN sh :
    /\ ( /\ sh[e].log # <<>>
         /\ sh[e].log[Len(sh[e].log)].type = "return"
         /\ ~sh[e].log[Len(sh[e].log)].ok )
       => /\ ~sh[e].exited
          /\ sh[e].pc <= Len(Prog(sh[e].script))
          /\ Prog(sh[e].script)[sh[e].pc].op = "echo"
          /\ IsFinishMarker(Prog(sh[e].script)[sh[e].pc].text)
    /\ (SomeRunFailed(sh[e]) /\ sh[e].exited)
       => /\ sh[e].pc = Len(Prog(sh[e].script)) + 1
          /\ LogShape(sh[e]) = ExpectedShape(Prog(sh[e].script))

\* the five-point sweep has ended although its first run failed
C3_Witness ==
  \E e \in DOMAIN sh :
    /\ sh[e].exited
    /\ sh[e].script = DqnRandomScript
    /\ Len(Returns(sh[e])) = 5
    /\ ~Returns(sh[e])[1].ok

(***************************************************************************)
(* C4: every invocation is bracketed by markers.  With the lines that are  *)
(* no markers left out, what a script shows is start marker, run started,  *)
(* run returned, finish marker, and again; a returned run is the one that  *)
(* was started; and a script that has ended has closed every bracket.      *)
(***************************************************************************)
C4_RunsBracketedByMarkers ==
  \A e \in DOMAIN sh :
    LET b == Brackets(sh[e])
    IN /\ \A i \in 1..Len(b) : Sym(b[i]) = <<"S", "I", "R", "F">>[((i - 1) % 4) + 1]
       /\ \A i \in 1..Len(b) : Sym(b[i]) = "R" => b[i].pid = b[i - 1].pid
       /\ sh[e].exited => Len(b) = 4 * Len(SweepPoints(sh[e].script))

\* a script has ended after at least two brackets
C4_Witness ==
  \E e \in DOMAIN sh :
    /\ sh[e].exited
    /\ Len(Brackets(sh[e])) >= 8

(***************************************************************************)
(* C5: for every sweep point (name, amount) the command line carries       *)
(* --exp_name name and --prune_amount amount of that same point, the i-th  *)
(* point of the script's list for the i-th run, together with              *)
(* --env-id SpaceInvadersNoFrameskip-v4.                                   *)
(***************************************************************************)
C5_CommandLineCarriesItsPoint ==
  \A e \in DOMAIN sh :
    \A i \in 1..Len(Starts(sh[e])) :
      LET run == Starts(sh[e])[i]
      IN Len(run.args) = 2 =>
           /\ run.args = SweepPoints(sh[e].script)[i]
           /\ FlagValue(run.cmd, "--exp_name") = run.args[1]
           /\ FlagValue(run.cmd, "--prune_amount") = run.args[2]
           /\ FlagValue(run.cmd, "--env-id") = "SpaceInvadersNoFrameskip-v4"

\* the third point of a sweep has been started
C5_Witness ==
  \E e \in DOMAIN sh :
    /\ Len(Starts(sh[e])) >= 3
    /\ Len(Starts(sh[e])[3].args) = 2

(***************************************************************************)
(* C6: within one script the command lines of two runs have the same       *)
(* length and differ only in the values that follow --exp_name and         *)
(* --prune_amount; and env and path_to_poetry, once set, never change.     *)
(***************************************************************************)
C6_SameFlags ==
  \A e \in DOMAIN sh :
    \A j, k \in 1..Len(Starts(sh[e])) :
      LET a == Starts(sh[e])[j].cmd
          b == Starts(sh[e])[k].cmd
      IN /\ Len(a) = Len(b)
         /\ \A i \in 1..Len(a) :
              a[i] # b[i] =>
                /\ i > 1
                /\ a[i - 1] = b[i - 1]
                /\ a[i - 1] \in {"--exp_name", "--prune_amount"}

C6_VariablesKept ==
  \A e \in DOMAIN sh :
    /\ sh[e].env # "" => sh'[e].env = sh[e].env
    /\ sh[e].path_to_poetry # "" => sh'[e].path_to_poetry = sh[e].path_to_poetry

C6_OnlyNameAndAmountVary == []C6_SameFlags /\ [][C6_VariablesKept]_vars

\* two runs of one script with different names and amounts, both variables set
C6_Witness ==
  \E e \in DOMAIN sh :
    /\ Len(Starts(sh[e])) >= 2
    /\ Starts(sh[e])[1].args # Starts(sh[e])[2].args
    /\ Starts(sh[e])[1].cmd # Starts(sh[e])[2].cmd
    /\ sh[e].env # ""
    /\ sh[e].path_to_poetry # ""

(***************************************************************************)
(* C7: runs are independent of each other.  In two executions of the same  *)
(* script whose runs end with whatever statuses, the i-th command line of  *)
(* the one is the i-th command line of the other.                          *)
(***************************************************************************)
C7_CommandLinesIgnoreOutcomes ==
  \A e1, e2 \in DOMAIN sh :
    \A i \in 1..Len(Starts(sh[e1])) :
      i <= Len(Starts(sh[e2])) => Starts(sh[e1])[i].cmd = Starts(sh[e2])[i].cmd

\* one execution in which no run failed and one in which the first two did,
\* both at their third run
C7_Witness ==
  /\ DOMAIN sh = {1, 2}
  /\ Len(Starts(sh[1])) >= 3
  /\ Len(Starts(sh[2])) >= 3
  /\ ~SomeRunFailed(sh[1])
  /\ Len(Returns(sh[2])) >= 2
  /\ ~Returns(sh[2])[1].ok
  /\ ~Returns(sh[2])[2].ok

(***************************************************************************)
(* C8: the finish marker printed after a run names the same sweep point,   *)
(* method label and pruning amount, as the start marker printed before it, *)
(* and that amount is the pruning amount passed to the run between them.   *)
(* A marker is "Starting" or "Finished", the label and, when the marker    *)
(* names one, the amount.                                                  *)
(***************************************************************************)
MarkerLabel(t) == IF Len(t) >= 2 THEN t[2] ELSE ""
MarkerAmount(t) == IF Len(t) >= 3 THEN t[3] ELSE ""

C8_MarkersNameTheRun ==
  \A e \in DOMAIN sh :
    \A i \in 1..Len(Starts(sh[e])) :
      (2 * i <= Len(Markers(sh[e])) /\ Markers(sh[e])[2 * i - 1].text[1] = "Starting") =>
        LET start == Markers(sh[e])[2 * i - 1].text
            finish == Markers(sh[e])[2 * i].text
            run == Starts(sh[e])[i]
        IN /\ MarkerLabel(finish) = MarkerLabel(start)
           /\ MarkerAmount(finish) = MarkerAmount(start)
           /\ MarkerAmount(start) # "" => MarkerAmount(start) = Param(run.args, 2)

(***************************************************************************)
(* C9: the sparsity statistics count only the weights of the Linear        *)
(* layers: zero_weights is the number of zero entries of those weights,    *)
(* nonzero_weights the number of nonzero entries, their sum the number of  *)
(* Linear weight entries, other layers add nothing to either count, and    *)
(* the sparsity printed is zero_weights divided by that sum.               *)
(***************************************************************************)
RECURSIVE LinearCount(_, _)
\* the entries of the Linear layers of a network that are zero (is_zero), or
\* that are not
LinearCount(network, is_zero) ==
  IF network = <<>> THEN 0
  ELSE (IF Head(network).kind = "Linear"
          THEN Cardinality({i \in DOMAIN Head(network).weight :
                              (Head(network).weight[i] = 0) = is_zero})
          ELSE 0)
         + LinearCount(Tail(network), is_zero)

C9_SparsityCountsLinearOnly ==
  nb.stage = "printed" =>
    /\ nb.zero_weights = LinearCount(nb.network, TRUE)
    /\ nb.nonzero_weights = LinearCount(nb.network, FALSE)
    /\ nb.sparsity = [num |-> LinearCount(nb.network, TRUE),
                      den |-> LinearCount(nb.network, TRUE)
                                + LinearCount(nb.network, FALSE)]

(***************************************************************************)
(* C10: a script reports success whatever its runs did: a script that has  *)
(* ended has printed its last finish marker and its exit status is 0, also *)
(* when some or all of its runs failed.                                    *)
(***************************************************************************)
C10_ExitStatusZero ==
  \A e \in DOMAIN sh :
    sh[e].exited =>
      /\ sh[e].exit_status = 0
      /\ sh[e].log # <<>>
      /\ Sym(sh[e].log[Len(sh[e].log)]) = "F"
      /\ sh[e].log[Len(sh[e].log)].text =
           Prog(sh[e].script)[Len(Prog(sh[e].script))].text

\* a sweep has ended and every one of its runs, three or more, failed
C10_Witness ==
  \E e \in DOMAIN sh :
    /\ sh[e].exited
    /\ Len(Returns(sh[e])) >= 3
    /\ ~SomeRunSucceeded(sh[e])

====
